---- MODULE Spec2Model ----
(***************************************************************************)
(* Model of the two notebooks of the repository: the skip-gram data        *)
(* pipeline (preprocess, create_lookup_tables, get_target, get_batches),   *)
(* cosine_similarity, the skip-gram notebook's cells up to the training    *)
(* cell, and the cells of the saving and loading notebook.  Python lists   *)
(* are sequences; a Python index i is the sequence index i + 1.            *)
(***************************************************************************)
EXTENDS Integers, Sequences, FiniteSets, TLC

VARIABLES
  words, batch_size, window_size,  \* the arguments of get_batches / get_target
  gen, n_yielded, last,            \* the get_batches generator and its last yield
  call,                            \* the last direct call of get_target
  text, pre,                       \* preprocess: its argument and its locals
  lookup, int_words,               \* create_lookup_tables' tables; the encoded words
  sub, train_words,                \* the subsampling cell: its draws and its result
  model, file, nb,                 \* the notebook's model, checkpoint.pth, the last cell run
  sim,                             \* the last call of cosine_similarity
  skip                             \* the skip-gram notebook's kernel: names bound, last cell

batchVars == <<words, batch_size, window_size, gen, n_yielded, last, call>>
preVars == <<text, pre>>
lookupVars == <<lookup, int_words>>
subVars == <<sub, train_words>>
ckptVars == <<model, file, nb>>
gramVars == <<sim, skip>>
otherThanBatches == <<preVars, lookupVars, subVars, ckptVars, gramVars>>
vars == <<batchVars, preVars, lookupVars, subVars, ckptVars, gramVars>>

(* ----------------------------- bounds ---------------------------------- *)
MaxWords == 6
MaxBatch == 3
MaxWindow == 4
MaxTextLen == 3
MaxUnits == 12
MaxVocabWords == 6
MaxSubWords == 4
MaxHidden == 2
MaxTrain == 1
MaxValidSize == 2
MaxValidWindow == 2
MaxNVocab == 2

(* ------------------- the parts of the state not in use ------------------ *)
\* Each specification below runs one part of the notebooks; the variables of
\* the other parts keep the values they have before their cells run.
NoCall == [idx |-> -1, R |-> 0, target |-> <<>>]
NoBatch == [batch |-> <<>>, R |-> <<>>, x |-> <<>>, y |-> <<>>]
NotRun == [pc |-> "start", words |-> <<>>, trimmed_words |-> <<>>]
NoTables == [pc |-> "start", vocab_to_int |-> <<>>, int_to_vocab |-> <<>>]
NotSampled == [pc |-> "start", u |-> <<>>]
NoModel == [hidden_layers |-> <<>>, output |-> <<>>, params |-> <<>>]
NoFile == [kind |-> "none"]
NoCell == [last |-> "none", err |-> "none"]
NotCalled == [pc |-> "start"]
NoKernel == [last |-> "none", err |-> "none", globals |-> {}]

\* A get_batches generator just created, nothing called yet.
FreshGenerator ==
  /\ gen = [pc |-> "created", words |-> <<>>, idx |-> 0]
  /\ n_yielded = 0
  /\ last = NoBatch
  /\ call = NoCall

IdleBatches == batch_size = 1 /\ window_size = 1 /\ FreshGenerator
IdlePreprocess == text = <<>> /\ pre = NotRun
IdleLookup == lookup = NoTables /\ int_words = <<>>
IdleSubsample == sub = NotSampled /\ train_words = <<>>
IdleCheckpoint == model = NoModel /\ file = NoFile /\ nb = NoCell
IdleSkipGram == sim = NotCalled /\ skip = NoKernel

(* ------------------------- Python list helpers ------------------------- *)
Min(a, b) == IF a < b THEN a ELSE b
Max(a, b) == IF a > b THEN a ELSE b

\* A slice bound as Python normalises it against a list of length n.
SliceBound(i, n) == IF i < 0 THEN Max(i + n, 0) ELSE Min(i, n)

\* s[a:b] of a Python list.
PySlice(s, a, b) ==
  LET lo == SliceBound(a, Len(s))
      hi == SliceBound(b, Len(s))
  IN IF lo >= hi THEN <<>> ELSE SubSeq(s, lo + 1, hi)

\* [v] * n
Repeat(v, n) == [k \in 1..n |-> v]

\* list(range(n))
Range(n) == [k \in 1..n |-> k - 1]

(* ------------------------------ preprocess ----------------------------- *)
\* A text is a sequence of one-character strings; a token is such a sequence too.
UpperCase == <<"A", "B", "C", "D", "E", "F", "G", "H", "I", "J", "K", "L", "M",
               "N", "O", "P", "Q", "R", "S", "T", "U", "V", "W", "X", "Y", "Z">>
LowerCase == <<"a", "b", "c", "d", "e", "f", "g", "h", "i", "j", "k", "l", "m",
               "n", "o", "p", "q", "r", "s", "t", "u", "v", "w", "x", "y", "z">>

\* text.lower()
LowerChar(c) ==
  IF \E k \in 1..Len(UpperCase) : UpperCase[k] = c
  THEN LowerCase[CHOOSE k \in 1..Len(UpperCase) : UpperCase[k] = c]
  ELSE c
Lower(s) == [k \in 1..Len(s) |-> LowerChar(s[k])]

\* Whether old occurs in s at position k.
OccursAt(s, old, k) ==
  /\ k + Len(old) - 1 <= Len(s)
  /\ SubSeq(s, k, k + Len(old) - 1) = old

\* text.replace(old, new): the occurrences of old found left to right, not
\* overlapping; the scan resumes right after each occurrence it replaces.
RECURSIVE Replace(_, _, _)
Replace(s, old, new) ==
  IF \A k \in 1..Len(s) : ~OccursAt(s, old, k) THEN s
  ELSE LET k == CHOOSE i \in 1..Len(s) :
                  OccursAt(s, old, i) /\ \A j \in 1..(i - 1) : ~OccursAt(s, old, j)
       IN SubSeq(s, 1, k - 1) \o new
          \o Replace(SubSeq(s, k + Len(old), Len(s)), old, new)

Whitespace == {" ", "\n", "\t"}

\* text.split(): the maximal runs of characters that are not whitespace.
RECURSIVE Split(_)
Split(s) ==
  IF \A k \in 1..Len(s) : s[k] \in Whitespace THEN <<>>
  ELSE LET b == CHOOSE i \in 1..Len(s) :
                  s[i] \notin Whitespace /\ \A j \in 1..(i - 1) : s[j] \in Whitespace
           e == CHOOSE i \in b..Len(s) :
                  /\ \A j \in b..i : s[j] \notin Whitespace
                  /\ (i = Len(s) \/ s[i + 1] \in Whitespace)
       IN <<SubSeq(s, b, e)>> \o Split(SubSeq(s, e + 1, Len(s)))

\* The sentinel tokens.
PERIOD == <<"<", "P", "E", "R", "I", "O", "D", ">">>
COMMA == <<"<", "C", "O", "M", "M", "A", ">">>
QUOTATION_MARK ==
  <<"<", "Q", "U", "O", "T", "A", "T", "I", "O", "N", "_", "M", "A", "R", "K", ">">>
SEMICOLON == <<"<", "S", "E", "M", "I", "C", "O", "L", "O", "N", ">">>
EXCLAMATION_MARK ==
  <<"<", "E", "X", "C", "L", "A", "M", "A", "T", "I", "O", "N", "_", "M", "A", "R", "K", ">">>
QUESTION_MARK ==
  <<"<", "Q", "U", "E", "S", "T", "I", "O", "N", "_", "M", "A", "R", "K", ">">>
LEFT_PAREN == <<"<", "L", "E", "F", "T", "_", "P", "A", "R", "E", "N", ">">>
RIGHT_PAREN == <<"<", "R", "I", "G", "H", "T", "_", "P", "A", "R", "E", "N", ">">>
HYPHENS == <<"<", "H", "Y", "P", "H", "E", "N", "S", ">">>
COLON == <<"<", "C", "O", "L", "O", "N", ">">>

\* Mutant: the sentinel put in without the blanks around it.
Padded_NoBlanks(tok) == tok

\* ' <TOKEN> '
Padded(tok) == <<" ">> \o tok \o <<" ">>

\* The replacements of preprocess, in the order the code makes them.
Replacements ==
  << [old |-> <<".">>, new |-> Padded(PERIOD)],
     [old |-> <<",">>, new |-> Padded(COMMA)],
     [old |-> <<"\"">>, new |-> Padded(QUOTATION_MARK)],
     [old |-> <<";">>, new |-> Padded(SEMICOLON)],
     [old |-> <<"!">>, new |-> Padded(EXCLAMATION_MARK)],
     [old |-> <<"?">>, new |-> Padded(QUESTION_MARK)],
     [old |-> <<"(">>, new |-> Padded(LEFT_PAREN)],
     [old |-> <<")">>, new |-> Padded(RIGHT_PAREN)],
     [old |-> <<"-", "-">>, new |-> Padded(HYPHENS)],
     [old |-> <<"?">>, new |-> Padded(QUESTION_MARK)],
     [old |-> <<":">>, new |-> Padded(COLON)] >>

\* The text after the first n replacements.
RECURSIVE Replaced(_, _)
Replaced(s, n) ==
  IF n = 0 THEN s
  ELSE Replace(Replaced(s, n - 1), Replacements[n].old, Replacements[n].new)

\* words = text.split(), after lower() and the replacements.
Tokenize(s) == Split(Replaced(Lower(s), Len(Replacements)))

\* Counter(words)[w]
RECURSIVE Counter(_, _)
Counter(ws, w) ==
  IF ws = <<>> THEN 0
  ELSE Counter(Tail(ws), w) + (IF Head(ws) = w THEN 1 ELSE 0)

\* "Remove all words with 5 or fewer occurences"
MinCount == 5

\* Mutant: the threshold test off by one (>= in place of >).
Keeps_AtLeast(ws, w) == Counter(ws, w) >= MinCount

\* word_counts[word] > 5
Keeps(ws, w) == Counter(ws, w) > MinCount

\* trimmed_words = [word for word in words if word_counts[word] > 5]
RECURSIVE TrimFrom(_, _)
TrimFrom(ws, k) ==
  IF k > Len(ws) THEN <<>>
  ELSE (IF Keeps(ws, ws[k]) THEN <<ws[k]>> ELSE <<>>) \o TrimFrom(ws, k + 1)

\* preprocess(text)
Preprocess ==
  /\ pre.pc = "start"
  /\ LET ws == Tokenize(text)
     IN pre' = [pc |-> "returned", words |-> ws, trimmed_words |-> TrimFrom(ws, 1)]
  /\ UNCHANGED <<text, batchVars, lookupVars, subVars, ckptVars, gramVars>>

\* Every punctuation character preprocess replaces, a hyphen, letters, a blank.
Alphabet == {".", ",", "\"", ";", "!", "?", "(", ")", ":", "-", "a", "A", " "}
ShortTexts == UNION {[1..n -> Alphabet] : n \in 0..MaxTextLen}

RECURSIVE Flatten(_)
Flatten(ss) == IF ss = <<>> THEN <<>> ELSE Head(ss) \o Flatten(Tail(ss))

\* Longer texts, made of a word and a punctuation mark, for the frequency filter.
Units == {<<"A", " ">>, <<".">>}
UnitTexts == {Flatten(us) : us \in UNION {[1..n -> Units] : n \in 0..MaxUnits}}

InitPreprocess ==
  /\ text \in ShortTexts
  /\ pre = NotRun
  /\ words = <<>>
  /\ IdleBatches /\ IdleLookup /\ IdleSubsample /\ IdleCheckpoint /\ IdleSkipGram

InitTrim ==
  /\ text \in UnitTexts
  /\ pre = NotRun
  /\ words = <<>>
  /\ IdleBatches /\ IdleLookup /\ IdleSubsample /\ IdleCheckpoint /\ IdleSkipGram

\* preprocess on every short text over the alphabet.
SpecPreprocess == InitPreprocess /\ [][Preprocess]_vars

\* preprocess on texts long enough for a word to pass the frequency filter.
SpecTrim == InitTrim /\ [][Preprocess]_vars

(* -------------------------- create_lookup_tables ----------------------- *)
\* Mutant: the words taken as they come, repeated occurrences included.
Keys_NoDedup(ws) == ws

\* The keys of Counter(words): the distinct words, in order of first occurrence.
RECURSIVE Keys(_)
Keys(ws) ==
  IF ws = <<>> THEN <<>>
  ELSE LET seen == Keys(SubSeq(ws, 1, Len(ws) - 1))
           w == ws[Len(ws)]
       IN IF \E k \in 1..Len(seen) : seen[k] = w THEN seen ELSE Append(seen, w)

\* Mutant: the sort made ascending (reverse=True left out).
Precedes_Ascending(ws, a, b) == Counter(ws, a) < Counter(ws, b)

\* key=word_counts.get, reverse=True: a sorts strictly before b.
Precedes(ws, a, b) == Counter(ws, a) > Counter(ws, b)

\* sorted() is stable: a key goes before the first key it strictly precedes,
\* and after every key of equal count met before it.
InsertStable(ws, sorted, w) ==
  LET before == {k \in 1..Len(sorted) : \A j \in 1..k : ~Precedes(ws, w, sorted[j])}
      n == Cardinality(before)
  IN SubSeq(sorted, 1, n) \o <<w>> \o SubSeq(sorted, n + 1, Len(sorted))

RECURSIVE SortFrom(_, _, _)
SortFrom(ws, keys, n) ==
  IF n = 0 THEN <<>> ELSE InsertStable(ws, SortFrom(ws, keys, n - 1), keys[n])

\* sorted_vocab = sorted(word_counts, key=word_counts.get, reverse=True)
SortedVocab(ws) == SortFrom(ws, Keys(ws), Len(Keys(ws)))

\* {ii: word for ii, word in enumerate(sorted_vocab)}
IntToVocab(sorted_vocab) == [ii \in 0..(Len(sorted_vocab) - 1) |-> sorted_vocab[ii + 1]]

\* {word: ii for ii, word in int_to_vocab.items()}: a later item replaces an
\* earlier one with the same key.
VocabToInt(int_to_vocab) ==
  [w \in {int_to_vocab[ii] : ii \in DOMAIN int_to_vocab} |->
     CHOOSE ii \in DOMAIN int_to_vocab :
       /\ int_to_vocab[ii] = w
       /\ \A jj \in DOMAIN int_to_vocab : int_to_vocab[jj] = w => jj <= ii]

\* vocab_to_int, int_to_vocab = create_lookup_tables(words)
\* int_words = [vocab_to_int[word] for word in words]
CreateLookupTables ==
  /\ lookup.pc = "start"
  /\ LET int_to_vocab == IntToVocab(SortedVocab(words))
         vocab_to_int == VocabToInt(int_to_vocab)
     IN /\ lookup' = [pc |-> "returned", vocab_to_int |-> vocab_to_int,
                      int_to_vocab |-> int_to_vocab]
        /\ int_words' = [k \in 1..Len(words) |-> vocab_to_int[words[k]]]
  /\ UNCHANGED <<batchVars, preVars, subVars, ckptVars, gramVars>>

Vocabulary == {"the", "of", "and"}

InitLookup ==
  /\ words \in UNION {[1..n -> Vocabulary] : n \in 0..MaxVocabWords}
  /\ lookup = NoTables
  /\ int_words = <<>>
  /\ IdleBatches /\ IdlePreprocess /\ IdleSubsample /\ IdleCheckpoint /\ IdleSkipGram

\* create_lookup_tables and the encoding of the word list.
SpecLookup == InitLookup /\ [][CreateLookupTables]_vars

(* ------------------------------ subsampling ---------------------------- *)
\* Exact arithmetic for the cell: a fraction is [n, d] with d > 0, and a value
\* a + b * sqrt(r), with integers a, b and a fraction r, is [a, b, r].
RECURSIVE GCD(_, _)
GCD(a, b) == IF b = 0 THEN a ELSE GCD(b, a % b)

\* threshold = 1e-5
Threshold == [n |-> 1, d |-> 100000]

\* p / q for fractions p, q
RatDiv(p, q) == [n |-> p.n * q.d, d |-> p.d * q.n]

\* Mutant: the frequency taken upside down (total_count/count).
Frequency_Inverted(ws, w) == [n |-> Len(ws), d |-> Counter(ws, w)]

\* frequency[word] = count/total_count
Frequency(ws, w) == [n |-> Counter(ws, w), d |-> Len(ws)]

\* np.sqrt(r)
Sqrt(r) == [a |-> 0, b |-> 1, r |-> r]

\* 1 - v
OneMinus(v) == [a |-> 1 - v.a, b |-> 0 - v.b, r |-> v.r]

\* p_drop[word] = 1 - np.sqrt(threshold / frequency[word])
PDrop(ws, w) == OneMinus(Sqrt(RatDiv(Threshold, Frequency(ws, w))))

\* The sign of (c/d)^2 - b^2 * r, computed as that of c*c*r.d - b*b*d*d*r.n
\* with the common factor of d*d and r.d taken out.
SquareSign(c, d, b, r) ==
  LET g == GCD(d * d, r.d)
      lhs == c * c * (r.d \div g)
      rhs == b * b * ((d * d) \div g) * r.n
  IN IF lhs < rhs THEN -1 ELSE IF lhs > rhs THEN 1 ELSE 0

\* u < v for a fraction u and a value v = a + b * sqrt(r): with c/d = u - a,
\* whether c/d < b * sqrt(r).
Less(u, v) ==
  LET c == u.n - v.a * u.d
  IN IF v.b = 0 THEN c < 0
     ELSE IF v.b > 0 THEN c < 0 \/ SquareSign(c, u.d, v.b, v.r) < 0
     ELSE c < 0 /\ SquareSign(c, u.d, v.b, v.r) > 0

\* [word for word in int_words if random.random() < (1 - p_drop[word])];
\* us[k] is the value random.random() returns for the k-th word.
RECURSIVE TrainFrom(_, _, _)
TrainFrom(ws, us, k) ==
  IF k > Len(ws) THEN <<>>
  ELSE (IF Less(us[k], OneMinus(PDrop(ws, ws[k]))) THEN <<ws[k]>> ELSE <<>>)
       \o TrainFrom(ws, us, k + 1)

\* Values of random.random(), in [0, 1).
Draws == {[n |-> 0, d |-> 1], [n |-> 1, d |-> 300], [n |-> 1, d |-> 200], [n |-> 1, d |-> 2]}

\* The subsampling cell.
Subsample ==
  /\ sub.pc = "start"
  /\ \E us \in [1..Len(int_words) -> Draws] :
       /\ sub' = [pc |-> "done", u |-> us]
       /\ train_words' = TrainFrom(int_words, us, 1)
  /\ UNCHANGED <<batchVars, preVars, lookupVars, ckptVars, gramVars>>

\* The notebook after its create_lookup_tables cell, for every short word list.
InitSubsample ==
  /\ words \in UNION {[1..n -> {"the", "of"}] : n \in 0..MaxSubWords}
  /\ lookup = [pc |-> "returned",
               vocab_to_int |-> VocabToInt(IntToVocab(SortedVocab(words))),
               int_to_vocab |-> IntToVocab(SortedVocab(words))]
  /\ int_words = [k \in 1..Len(words) |-> lookup.vocab_to_int[words[k]]]
  /\ sub = NotSampled
  /\ train_words = <<>>
  /\ IdleBatches /\ IdlePreprocess /\ IdleCheckpoint /\ IdleSkipGram

\* The subsampling cell run on the encoded word list.
SpecSubsample == InitSubsample /\ [][Subsample]_vars

(* ------------------------ saving and loading models -------------------- *)
\* nn.Linear(in_features, out_features)
Linear(in_features, out_features) ==
  [in_features |-> in_features, out_features |-> out_features]

\* The keys of a state dict: hidden_layers.<i>.weight, hidden_layers.<i>.bias,
\* output.weight, output.bias.
StateDictKeys(n_hidden) ==
  {<<"hidden_layers", i, p>> : i \in 0..(n_hidden - 1), p \in {"weight", "bias"}}
    \cup {<<"output", p>> : p \in {"weight", "bias"}}

\* fc_model.Network(input_size, output_size, hidden_layers), its parameters
\* initialised at random (seed): a ModuleList of Linear layers chained from
\* input_size through the hidden sizes, and an output layer.
Network(input_size, output_size, hidden_layers, seed) ==
  [hidden_layers |->
     [k \in 1..Len(hidden_layers) |->
        Linear(IF k = 1 THEN input_size ELSE hidden_layers[k - 1], hidden_layers[k])],
   output |-> Linear(hidden_layers[Len(hidden_layers)], output_size),
   params |-> [key \in StateDictKeys(Len(hidden_layers)) |-> [init |-> seed, steps |-> 0]]]

\* The layer a state dict key belongs to.
LayerOf(m, key) == IF key[1] = "output" THEN m.output ELSE m.hidden_layers[key[2] + 1]

\* The shape of the tensor under a key: (out, in) for a weight, (out) for a bias.
ShapeOf(m, key) ==
  IF key[Len(key)] = "weight"
  THEN <<LayerOf(m, key).out_features, LayerOf(m, key).in_features>>
  ELSE <<LayerOf(m, key).out_features>>

\* model.state_dict()
StateDict(m) == [key \in DOMAIN m.params |-> [shape |-> ShapeOf(m, key), data |-> m.params[key]]]

\* model.load_state_dict(state_dict): the keys and the tensor sizes must be
\* those of the model, or it raises.
CanLoad(m, state_dict) ==
  /\ DOMAIN state_dict = DOMAIN m.params
  /\ \A key \in DOMAIN state_dict : state_dict[key].shape = ShapeOf(m, key)

LoadStateDict(m, state_dict) ==
  [m EXCEPT !.params = [key \in DOMAIN m.params |-> state_dict[key].data]]

\* Mutant: the sizes read from in_features instead of out_features.
HiddenLayersOf_InFeatures(m) == [k \in 1..Len(m.hidden_layers) |-> m.hidden_layers[k].in_features]

\* [each.out_features for each in model.hidden_layers]
HiddenLayersOf(m) == [k \in 1..Len(m.hidden_layers) |-> m.hidden_layers[k].out_features]

\* checkpoint = {'input_size': 784, 'output_size': 10, 'hidden_layers': ...,
\*               'state_dict': model.state_dict()}
CheckpointOf(m) ==
  [kind |-> "checkpoint",
   input_size |-> 784,
   output_size |-> 10,
   hidden_layers |-> HiddenLayersOf(m),
   state_dict |-> StateDict(m)]

\* The hidden sizes the notebook uses.
HiddenSizes == {512, 256, 128, 400, 200, 100}
Seeds == {"seed1", "seed2"}

\* fc_model.train(model, ...): every parameter is updated in place.
Train ==
  /\ nb.err = "none"
  /\ \A key \in DOMAIN model.params : model.params[key].steps < MaxTrain
  /\ model' = [model EXCEPT !.params =
                 [key \in DOMAIN model.params |->
                    [model.params[key] EXCEPT !.steps = @ + 1]]]
  /\ nb' = [last |-> "train", err |-> "none"]
  /\ UNCHANGED <<file, batchVars, preVars, lookupVars, subVars, gramVars>>

\* The cell that builds the checkpoint dictionary and torch.save's it.
SaveCheckpoint ==
  /\ nb.err = "none"
  /\ file' = CheckpointOf(model)
  /\ nb' = [last |-> "save", err |-> "none"]
  /\ UNCHANGED <<model, batchVars, preVars, lookupVars, subVars, gramVars>>

\* model = load_checkpoint('checkpoint.pth'); a raise leaves model as it was.
LoadCheckpoint ==
  /\ nb.err = "none"
  /\ file.kind = "checkpoint"
  /\ \E seed \in Seeds :
       LET fresh == Network(file.input_size, file.output_size, file.hidden_layers, seed)
       IN IF CanLoad(fresh, file.state_dict)
          THEN /\ model' = LoadStateDict(fresh, file.state_dict)
               /\ nb' = [last |-> "load", err |-> "none"]
          ELSE /\ model' = model
               /\ nb' = [last |-> "load", err |-> "RuntimeError"]
  /\ UNCHANGED <<file, batchVars, preVars, lookupVars, subVars, gramVars>>

\* A model Network(784, 10, h) just built, for every short list h.
InitCheckpoint ==
  /\ \E h \in UNION {[1..n -> HiddenSizes] : n \in 1..MaxHidden}, seed \in Seeds :
       model = Network(784, 10, h, seed)
  /\ file = NoFile
  /\ nb = NoCell
  /\ words = <<>>
  /\ IdleBatches /\ IdlePreprocess /\ IdleLookup /\ IdleSubsample /\ IdleSkipGram

NextCheckpoint == Train \/ SaveCheckpoint \/ LoadCheckpoint

\* Training, saving and loading a network, in any order.
SpecCheckpoint == InitCheckpoint /\ [][NextCheckpoint]_vars

(* ------------- the saving and loading notebook, cell by cell ------------ *)
\* The code cells from the training cell on, in the order of their recorded
\* execution counts (7, 26, 30, 33, 37, 40, 41, 42, 43, 44, 46).
RecordedOrder ==
  <<"train", "keys", "save_state_dict", "load_own_state_dict", "try_this",
    "save_checkpoint", "def_load_checkpoint", "load_checkpoint",
    "try_this_again", "save_state_dict_again", "print_model">>

Position(cell) == CHOOSE k \in 1..Len(RecordedOrder) : RecordedOrder[k] = cell

\* A kernel in which the import cell has run and no cell after it: nb.order
\* is the number of cells run so far when they were run first to last, each
\* once, and -1 after any other run; nb.load_checkpoint tells whether the
\* function is defined; nb.out is what the last cell printed.
FreshKernel == [last |-> "none", err |-> "none", out |-> "nothing", order |-> 0,
                load_checkpoint |-> FALSE]

\* The notebook after `cell` ended with err, having printed out.
Ran(cell, err, out) ==
  [nb EXCEPT !.last = cell, !.err = err, !.out = out,
             !.order = IF nb.order = Position(cell) - 1 THEN Position(cell) ELSE -1]

\* fc_model.train(model, ...) having made n optimizer steps on every parameter.
Trained(m, n) ==
  [m EXCEPT !.params = [key \in DOMAIN m.params |->
                          [m.params[key] EXCEPT !.steps = @ + n]]]

\* print(model.state_dict().keys()) and print(model)
KeysOf(m) == [keys |-> DOMAIN StateDict(m)]
Printed(m) == [hidden_layers |-> m.hidden_layers, output |-> m.output]

\* model = fc_model.Network(784, 10, [512, 256, 128]); ...; fc_model.train(...)
TrainCell ==
  /\ \E seed \in Seeds, n \in 1..MaxTrain :
       model' = Trained(Network(784, 10, <<512, 256, 128>>, seed), n)
  /\ nb' = Ran("train", "none", "losses")
  /\ UNCHANGED <<file, batchVars, preVars, lookupVars, subVars, gramVars>>

\* print(model.state_dict().keys())
KeysCell ==
  /\ nb' = IF model = NoModel THEN Ran("keys", "NameError", "nothing")
           ELSE Ran("keys", "none", KeysOf(model))
  /\ UNCHANGED <<model, file, batchVars, preVars, lookupVars, subVars, gramVars>>

\* torch.save(model.state_dict(), 'checkpoint.pth'); print(model.state_dict().keys())
SaveStateDict(cell) ==
  /\ IF model = NoModel
     THEN /\ file' = file
          /\ nb' = Ran(cell, "NameError", "nothing")
     ELSE /\ file' = [kind |-> "state_dict", state_dict |-> StateDict(model)]
          /\ nb' = Ran(cell, "none", KeysOf(model))
  /\ UNCHANGED <<model, batchVars, preVars, lookupVars, subVars, gramVars>>

SaveStateDictCell == SaveStateDict("save_state_dict")
SaveStateDictAgainCell == SaveStateDict("save_state_dict_again")

\* model.load_state_dict(model.state_dict())
LoadOwnStateDictCell ==
  /\ IF model = NoModel
     THEN /\ model' = model
          /\ nb' = Ran("load_own_state_dict", "NameError", "nothing")
     ELSE IF CanLoad(model, StateDict(model))
     THEN /\ model' = LoadStateDict(model, StateDict(model))
          /\ nb' = Ran("load_own_state_dict", "none", "<All keys matched successfully>")
     ELSE /\ model' = model
          /\ nb' = Ran("load_own_state_dict", "RuntimeError", "nothing")
  /\ UNCHANGED <<file, batchVars, preVars, lookupVars, subVars, gramVars>>

\* model = fc_model.Network(784, 10, hidden_layers)
\* model.load_state_dict(model.state_dict())
\* print(model.state_dict().keys())
\* The name model is bound to the new network before load_state_dict runs,
\* so it stays bound to it when load_state_dict raises.
TryThis(cell, hidden_layers) ==
  /\ \E seed \in Seeds :
       LET new == Network(784, 10, hidden_layers, seed)
       IN IF CanLoad(new, StateDict(new))
          THEN /\ model' = LoadStateDict(new, StateDict(new))
               /\ nb' = Ran(cell, "none", KeysOf(new))
          ELSE /\ model' = new
               /\ nb' = Ran(cell, "RuntimeError", "nothing")
  /\ UNCHANGED <<file, batchVars, preVars, lookupVars, subVars, gramVars>>

TryThisCell == TryThis("try_this", <<400, 200, 100>>)
TryThisAgainCell == TryThis("try_this_again", <<512, 256, 128>>)

\* checkpoint = {...}; torch.save(checkpoint, 'checkpoint.pth')
CheckpointCell ==
  /\ IF model = NoModel
     THEN /\ file' = file
          /\ nb' = Ran("save_checkpoint", "NameError", "nothing")
     ELSE /\ file' = CheckpointOf(model)
          /\ nb' = Ran("save_checkpoint", "none", "nothing")
  /\ UNCHANGED <<model, batchVars, preVars, lookupVars, subVars, gramVars>>

\* def load_checkpoint(filepath): ...
DefLoadCheckpointCell ==
  /\ nb' = [Ran("def_load_checkpoint", "none", "nothing") EXCEPT !.load_checkpoint = TRUE]
  /\ UNCHANGED <<model, file, batchVars, preVars, lookupVars, subVars, gramVars>>

\* model = load_checkpoint('checkpoint.pth'); print(model)
\* The assignment happens only when load_checkpoint returns.
LoadCheckpointCell ==
  /\ IF ~nb.load_checkpoint
     THEN /\ model' = model
          /\ nb' = Ran("load_checkpoint", "NameError", "nothing")
     ELSE IF file.kind = "none"
     THEN /\ model' = model
          /\ nb' = Ran("load_checkpoint", "FileNotFoundError", "nothing")
     ELSE IF file.kind # "checkpoint"
     THEN /\ model' = model
          /\ nb' = Ran("load_checkpoint", "KeyError", "nothing")
     ELSE \E seed \in Seeds :
            LET fresh == Network(file.input_size, file.output_size, file.hidden_layers, seed)
            IN IF CanLoad(fresh, file.state_dict)
               THEN /\ model' = LoadStateDict(fresh, file.state_dict)
                    /\ nb' = Ran("load_checkpoint", "none", Printed(model'))
               ELSE /\ model' = model
                    /\ nb' = Ran("load_checkpoint", "RuntimeError", "nothing")
  /\ UNCHANGED <<file, batchVars, preVars, lookupVars, subVars, gramVars>>

\* print(model)
PrintModelCell ==
  /\ nb' = IF model = NoModel THEN Ran("print_model", "NameError", "nothing")
           ELSE Ran("print_model", "none", Printed(model))
  /\ UNCHANGED <<model, file, batchVars, preVars, lookupVars, subVars, gramVars>>

InitNotebook ==
  /\ model = NoModel
  /\ file = NoFile
  /\ nb = FreshKernel
  /\ words = <<>>
  /\ IdleBatches /\ IdlePreprocess /\ IdleLookup /\ IdleSubsample /\ IdleSkipGram

NextNotebook ==
  \/ TrainCell \/ KeysCell \/ SaveStateDictCell \/ LoadOwnStateDictCell
  \/ TryThisCell \/ CheckpointCell \/ DefLoadCheckpointCell \/ LoadCheckpointCell
  \/ TryThisAgainCell \/ SaveStateDictAgainCell \/ PrintModelCell

\* The cells run one at a time, in any order the user picks (a cell that
\* raises does not stop the kernel); nb.order singles out the recorded order.
SpecNotebook == InitNotebook /\ [][NextNotebook]_vars

(* ------------------------------ get_target ----------------------------- *)
\* Mutant: the upper end taken as inclusive, as random.randint has it.
Radii_UpperInclusive(ws) == 1..(ws + 1)

\* The values np.random.randint(1, window_size+1) can return.
Radii(ws) == 1..ws

\* Mutant: the two value arguments of np.where swapped.
First_Swapped(idx, R) == IF (idx - R) > 0 THEN 3 ELSE idx - R

\* np.where((idx-R) > 0, idx - R, 3)
First(idx, R) == IF (idx - R) > 0 THEN idx - R ELSE 3

\* get_target with its drawn radius R made an argument.
get_target(ws, idx, R) ==
  PySlice(ws, First(idx, R), idx) \o PySlice(ws, idx + 1, idx + R + 1)

(* ------------------------------ get_batches ---------------------------- *)
\* Mutant: the "only full batches" truncation left out.
FullBatches_NoTruncation(ws, bs) == ws

\* words[:n_batches*batch_size]
FullBatches(ws, bs) == PySlice(ws, 0, (Len(ws) \div bs) * bs)

\* Mutant: the centre appended once per position instead of once per context token.
ExtendX_Once(x, batch_x, batch_y) == x \o <<batch_x>>

\* x.extend([batch_x]*len(batch_y))
ExtendX(x, batch_x, batch_y) == x \o Repeat(batch_x, Len(batch_y))

\* The loop over ii of one batch; Rs[ii] is the radius get_target draws at ii.
RECURSIVE BatchLoop(_, _, _, _, _, _)
BatchLoop(batch, Rs, ii, x, y, n) ==
  IF ii >= n THEN [x |-> x, y |-> y]
  ELSE LET batch_x == batch[ii + 1]
           batch_y == get_target(batch, ii, Rs[ii])
       IN BatchLoop(batch, Rs, ii + 1, ExtendX(x, batch_x, batch_y), y \o batch_y, n)

\* The generator's local `words` and the next value of its loop variable idx.
GenWords == IF gen.pc = "created" THEN FullBatches(words, batch_size) ELSE gen.words
GenNextIdx == IF gen.pc = "created" THEN 0 ELSE gen.idx + batch_size

\* The example list of the "Making batches" text and the test cells' range lists.
ExampleInput == <<5233, 58, 741, 10571, 27349, 0, 15067, 58112, 3580, 58, 10712>>
Corpora == {Range(n) : n \in 0..MaxWords} \cup {ExampleInput}

InitBatches ==
  /\ words \in Corpora
  /\ batch_size \in 1..MaxBatch
  /\ window_size \in 1..MaxWindow
  /\ FreshGenerator
  /\ IdlePreprocess /\ IdleLookup /\ IdleSubsample /\ IdleCheckpoint /\ IdleSkipGram

\* next() on the generator, up to its yield.
Yield ==
  /\ gen.pc # "exhausted"
  /\ GenNextIdx < Len(GenWords)
  /\ LET batch == PySlice(GenWords, GenNextIdx, GenNextIdx + batch_size)
     IN \E Rs \in [0..(Len(batch) - 1) -> Radii(window_size)] :
          LET xy == BatchLoop(batch, Rs, 0, <<>>, <<>>, Len(batch))
          IN last' = [batch |-> batch, R |-> Rs, x |-> xy.x, y |-> xy.y]
  /\ gen' = [pc |-> "suspended", words |-> GenWords, idx |-> GenNextIdx]
  /\ n_yielded' = n_yielded + 1
  /\ UNCHANGED <<words, batch_size, window_size, call, otherThanBatches>>

\* next() on the generator when its for loop is over.
StopIteration ==
  /\ gen.pc # "exhausted"
  /\ GenNextIdx >= Len(GenWords)
  /\ gen' = [pc |-> "exhausted", words |-> GenWords, idx |-> gen.idx]
  /\ UNCHANGED <<words, batch_size, window_size, n_yielded, last, call, otherThanBatches>>

\* A direct call get_target(words, idx, window_size), as in the test cell.
CallGetTarget ==
  /\ \E idx \in 0..(Len(words) - 1), R \in Radii(window_size) :
       call' = [idx |-> idx, R |-> R, target |-> get_target(words, idx, R)]
  /\ UNCHANGED <<words, batch_size, window_size, gen, n_yielded, last, otherThanBatches>>

NextBatches == Yield \/ StopIteration

\* The batch generator driven to exhaustion.
SpecBatches == InitBatches /\ [][NextBatches]_vars

\* The test cell's direct calls of get_target.
SpecTarget == InitBatches /\ [][CallGetTarget]_vars

(* --------------------------- cosine_similarity ------------------------- *)
\* The first id of the second range the validation words are picked from.
InfrequentFrom == 1000

\* Embedding vectors: EmbedDim small integer components.
EmbedDim == 2
Components == {-1, 0, 1}
Vectors == [1..EmbedDim -> Components]

\* An embedding weight matrix of n rows, row id i holding pattern[i % len].
WeightOf(pattern, n) == [i \in 0..(n - 1) |-> pattern[(i % Len(pattern)) + 1]]

\* random.sample(population, k): k distinct members, in any order.
Samples(population, k) ==
  {s \in [1..k -> population] : \A i, j \in 1..k : i # j => s[i] # s[j]}

\* (a . b): one entry of torch.mm(valid_vectors, embed_vectors.t())
Dot(a, b) == LET RECURSIVE Sum(_)
                 Sum(k) == IF k = 0 THEN 0 ELSE a[k] * b[k] + Sum(k - 1)
             IN Sum(Len(a))

\* embed_vectors.pow(2).sum(dim=1).sqrt(): the square root is kept by its
\* argument, [sqrt_of |-> s] being the real number sqrt(s).
Magnitudes(weight) == [j \in DOMAIN weight |-> [sqrt_of |-> Dot(weight[j], weight[j])]]

\* torch.mm(valid_vectors, embed_vectors.t())/magnitudes: entry (i, j) is the
\* real number num / sqrt(den.sqrt_of).
Similarities(valid_vectors, weight) ==
  [i \in DOMAIN valid_vectors |->
     [j \in DOMAIN weight |->
        [num |-> Dot(valid_vectors[i], weight[j]), den |-> Magnitudes(weight)[j]]]]

\* cosine_similarity(embedding, valid_size, valid_window), the two samples it
\* draws made arguments.
cosine_similarity(weight, frequent, infrequent) ==
  LET valid_examples == frequent \o infrequent
      valid_vectors == [i \in DOMAIN valid_examples |-> weight[valid_examples[i]]]
  IN [pc |-> "returned", weight |-> weight, valid_examples |-> valid_examples,
      similarities |-> Similarities(valid_vectors, weight)]

\* A call cosine_similarity(embedding, valid_size, valid_window) on the
\* embedding at hand: random.sample raises when asked for more ids than the
\* range has, the embedding lookup raises on an id that is not a row.
CallCosineSimilarity ==
  /\ sim.pc # "start"
  /\ \E valid_size \in 0..MaxValidSize, valid_window \in 1..MaxValidWindow :
       LET half == valid_size \div 2
       IN IF half > valid_window
          THEN sim' = [pc |-> "raised", weight |-> sim.weight, err |-> "ValueError"]
          ELSE \E frequent \in Samples(0..(valid_window - 1), half),
                  infrequent \in Samples(InfrequentFrom..(InfrequentFrom + valid_window - 1), half) :
                 IF \E i \in 1..half : infrequent[i] \notin DOMAIN sim.weight
                 THEN sim' = [pc |-> "raised", weight |-> sim.weight, err |-> "IndexError"]
                 ELSE sim' = cosine_similarity(sim.weight, frequent, infrequent)
  /\ UNCHANGED <<skip, batchVars, preVars, lookupVars, subVars, ckptVars>>

\* An embedding of InfrequentFrom rows, or of enough rows for every sample.
InitSimilarity ==
  /\ \E pattern \in [1..2 -> Vectors], n \in {InfrequentFrom, InfrequentFrom + MaxValidWindow} :
       sim = [pc |-> "embedding", weight |-> WeightOf(pattern, n)]
  /\ skip = NoKernel
  /\ words = <<>>
  /\ IdleBatches /\ IdlePreprocess /\ IdleLookup /\ IdleSubsample /\ IdleCheckpoint

\* Calls of cosine_similarity on one embedding.
SpecSimilarity == InitSimilarity /\ [][CallCosineSimilarity]_vars

(* ----------------- the skip-gram notebook, cell by cell ---------------- *)
\* A top-level statement of a cell, by the global names it reads (those the
\* functions it calls read included) and the global names it binds.
Stmt(needs, binds) == [needs |-> needs, binds |-> binds]

\* The global names SkipGram.__init__ reads: nn, and Target in
\* `self.word = Target`.
ConstructorReads == {"nn", "Target"}

\* embedding_dim=300
EmbeddingDim == 300

\* The code cells up to the training cell, in notebook order.
Cells ==
  << [name |-> "read",
      stmts |-> << Stmt({}, {"f", "text"}), Stmt({"text"}, {}) >>],
     [name |-> "words",
      stmts |-> << Stmt({}, {"preprocess", "create_lookup_tables"}), Stmt({}, {"numpy"}),
                   Stmt({"preprocess", "text"}, {"words"}), Stmt({"words"}, {}) >>],
     [name |-> "stats",
      stmts |-> << Stmt({"words"}, {}), Stmt({"words"}, {}) >>],
     [name |-> "lookup",
      stmts |-> << Stmt({"create_lookup_tables", "words"}, {"vocab_to_int", "int_to_vocab"}),
                   Stmt({"vocab_to_int", "words"}, {"int_words"}),
                   Stmt({"int_words"}, {}) >>],
     [name |-> "subsample",
      stmts |-> << Stmt({}, {"Counter"}), Stmt({}, {"random"}), Stmt({}, {"np"}),
                   Stmt({}, {"threshold"}),
                   Stmt({"Counter", "int_words"}, {"word_counts"}),
                   Stmt({"word_counts"}, {}),
                   Stmt({"int_words"}, {"total_count"}),
                   Stmt({"total_count", "word_counts"}, {"frequency"}),
                   Stmt({"np", "threshold", "frequency", "word_counts"}, {"p_drop"}),
                   Stmt({"int_words", "random", "p_drop"}, {"train_words"}),
                   Stmt({"train_words"}, {}) >>],
     [name |-> "def_get_target",
      stmts |-> << Stmt({}, {"get_target"}) >>],
     [name |-> "test_get_target",
      stmts |-> << Stmt({}, {"randint"}), Stmt({}, {"int_text"}), Stmt({"int_text"}, {}),
                   Stmt({}, {"idx"}),
                   Stmt({"get_target", "np", "int_text", "idx"}, {"target"}),
                   Stmt({"target"}, {}) >>],
     [name |-> "def_get_batches",
      stmts |-> << Stmt({}, {"get_batches"}) >>],
     [name |-> "test_get_batches",
      stmts |-> << Stmt({}, {"int_text"}),
                   Stmt({"get_batches", "get_target", "np", "int_text"}, {"x", "y"}),
                   Stmt({"x"}, {}), Stmt({"y"}, {}) >>],
     [name |-> "def_cosine_similarity",
      stmts |-> << Stmt({}, {"cosine_similarity"}) >>],
     [name |-> "SkipGram",
      stmts |-> << Stmt({}, {"torch"}), Stmt({}, {"nn"}), Stmt({}, {"optim"}),
                   Stmt({"nn"}, {"SkipGram"}) >>],
     [name |-> "training",
      stmts |-> << Stmt({"torch"}, {"device"}),
                   Stmt({}, {"embedding_dim"}),
                   Stmt({"SkipGram", "vocab_to_int", "embedding_dim", "device"}
                          \cup ConstructorReads, {"model"}),
                   Stmt({"nn"}, {"criterion"}),
                   Stmt({"optim", "model"}, {"optimizer"}),
                   Stmt({}, {"print_every"}), Stmt({}, {"steps"}), Stmt({}, {"epochs"}),
                   Stmt({"epochs", "get_batches", "train_words", "get_target", "np"},
                        {"e", "inputs", "targets"}) >>] >>

\* The statement of the training cell that calls SkipGram(...).
ConstructAt == 3

\* The statements of a cell run from the k-th on against the names bound so
\* far: `at` is the statement that raised NameError, 0 when none did.
RECURSIVE RunFrom(_, _, _)
RunFrom(stmts, k, globals) ==
  IF k > Len(stmts) THEN [globals |-> globals, at |-> 0]
  ELSE IF ~(stmts[k].needs \subseteq globals) THEN [globals |-> globals, at |-> k]
  ELSE RunFrom(stmts, k + 1, globals \cup stmts[k].binds)

\* SkipGram(n_vocab, n_embed) as its constructor builds it.
SkipGram(n_vocab, n_embed) ==
  [input_size |-> n_vocab,
   n_embed |-> n_embed,
   embed |-> [num_embeddings |-> n_vocab, embedding_dim |-> n_embed],
   output |-> Linear(n_embed, n_vocab),
   log_softmax |-> [dim |-> 1]]

\* The kernel after cell c ran and ended as `run` tells.
KernelAfter(c, run) ==
  [skip EXCEPT !.last = Cells[c].name,
               !.err = IF run.at = 0 THEN "none" ELSE "NameError",
               !.at = run.at,
               !.globals = run.globals,
               !.order = IF skip.order = c - 1 THEN c ELSE -1]

\* Any cell before the training cell.
RunCell ==
  /\ \E c \in 1..(Len(Cells) - 1) :
       skip' = KernelAfter(c, RunFrom(Cells[c].stmts, 1, skip.globals))
  /\ UNCHANGED <<sim, batchVars, preVars, lookupVars, subVars, ckptVars>>

\* The training cell: model is bound when its statement is reached and
\* SkipGram(len(vocab_to_int), embedding_dim) returns.
TrainingCell ==
  /\ LET c == Len(Cells)
         run == RunFrom(Cells[c].stmts, 1, skip.globals)
     IN skip' = [KernelAfter(c, run) EXCEPT
                   !.model = IF run.at = 0 \/ run.at > ConstructAt
                             THEN SkipGram(skip.n_vocab, EmbeddingDim) ELSE @]
  /\ UNCHANGED <<sim, batchVars, preVars, lookupVars, subVars, ckptVars>>

\* A fresh kernel; n_vocab stands for the len(vocab_to_int) the data gives.
InitSkipGram ==
  /\ \E n_vocab \in 1..MaxNVocab :
       skip = [last |-> "none", err |-> "none", at |-> 0, globals |-> {}, order |-> 0,
               n_vocab |-> n_vocab, model |-> NoModel]
  /\ sim = NotCalled
  /\ words = <<>>
  /\ IdleBatches /\ IdlePreprocess /\ IdleLookup /\ IdleSubsample /\ IdleCheckpoint

NextSkipGram == RunCell \/ TrainingCell

\* The cells run one at a time, in any order the user picks; skip.order
\* singles out the run first to last.
SpecSkipGram == InitSkipGram /\ [][NextSkipGram]_vars

(* ------------------------ properties: get_target ----------------------- *)
\* The tokens of ws at the Python positions lo .. hi-1 (0 <= lo <= hi <= len).
TokensAt(ws, lo, hi) == [k \in 1..(hi - lo) |-> ws[lo + k]]

Called == call.idx >= 0

\* C1: a call get_target(words, idx, window_size) that drew radius R returns
\* words[max(0, idx-R) : idx] followed by words[idx+1 : idx+R+1]: every token
\* within distance R of idx, clipped to the list, the centre excluded.
C1_TargetIsClippedWindow ==
  Called =>
    call.target = TokensAt(words, Max(0, call.idx - call.R), call.idx)
                  \o TokensAt(words, call.idx + 1, Min(Len(words), call.idx + call.R + 1))

\* C2: when the whole window fits in the list (R <= idx and idx + R <= len - 1)
\* get_target returns exactly 2R tokens, the R before idx then the R after it.
C2_FullWindowHas2RTokens ==
  (Called /\ call.R <= call.idx /\ call.idx + call.R <= Len(words) - 1) =>
    /\ Len(call.target) = 2 * call.R
    /\ call.target = TokensAt(words, call.idx - call.R, call.idx)
                     \o TokensAt(words, call.idx + 1, call.idx + call.R + 1)

\* C15: the radius get_target draws is an integer R with
\* 1 <= R <= window_size, so the call returns at most 2 * window_size tokens.
C15_RadiusWithinWindowSize ==
  Called =>
    /\ call.R \in 1..window_size
    /\ Len(call.target) <= 2 * window_size

\* C15 witness: the largest radius of a window_size above 1 was drawn and the
\* call returned 2 * window_size tokens.
C15_Witness ==
  /\ Called
  /\ window_size > 1
  /\ call.R = window_size
  /\ Len(call.target) = 2 * window_size

\* The positions of words within distance R of idx, idx itself left out.
Window(idx, R) ==
  {p \in 0..(Len(words) - 1) : p # idx /\ p - idx <= R /\ idx - p <= R}

\* The members of a set of positions in increasing order.
RECURSIVE Ascending(_)
Ascending(S) ==
  IF S = {} THEN <<>>
  ELSE LET least == CHOOSE p \in S : \A q \in S : p <= q
       IN <<least>> \o Ascending(S \ {least})

\* C16: what get_target returns is the tokens at a strictly increasing
\* sequence of positions p of words, each with p # idx and |p - idx| <= R.
C16_TargetWithinDrawnWindow ==
  Called =>
    \E S \in SUBSET Window(call.idx, call.R) :
      call.target = [k \in 1..Cardinality(S) |-> words[Ascending(S)[k] + 1]]

\* C16 witness: a call with idx - R <= 0 whose history slice starts at
\* position 3 and is not empty.
C16_Witness ==
  /\ Called
  /\ call.idx - call.R <= 0
  /\ call.idx > 3
  /\ Len(call.target) >= 2
  /\ call.target[1] = words[3 + 1]

(* ----------------------- properties: get_batches ----------------------- *)
\* The chunk the k-th batch (k = 0, 1, ...) is to be built from.
Chunk(k) == TokensAt(words, k * batch_size, (k + 1) * batch_size)

Elems(s) == {s[k] : k \in 1..Len(s)}

\* C3: get_batches yields exactly len(words) // batch_size batches, in corpus
\* order, the k-th built from words[k*batch_size : (k+1)*batch_size]; no token
\* outside that chunk is a centre or a context of it, so the trailing
\* len(words) mod batch_size tokens are never used, and nothing is yielded when
\* len(words) < batch_size.
C3_OnlyFullChunksInOrder ==
  /\ n_yielded <= Len(words) \div batch_size
  /\ gen.pc = "exhausted" => n_yielded = Len(words) \div batch_size
  /\ n_yielded > 0 =>
       /\ last.batch = Chunk(n_yielded - 1)
       /\ Elems(last.x) \cup Elems(last.y) \subseteq Elems(Chunk(n_yielded - 1))

\* C3 witness: a corpus with trailing tokens was consumed in two or more batches.
C3_Witness ==
  /\ gen.pc = "exhausted"
  /\ n_yielded >= 2
  /\ Len(words) % batch_size # 0
  /\ Len(last.y) > 0

\* The contexts get_target returned at position ii of the last batch.
ContextOf(ii) == get_target(last.batch, ii, last.R[ii])

\* The number of pairs the positions before ii contributed.
RECURSIVE PairsBefore(_)
PairsBefore(ii) == IF ii = 0 THEN 0 ELSE PairsBefore(ii - 1) + Len(ContextOf(ii - 1))

\* C4: a yielded batch (x, y) has len(x) = len(y); y is the concatenation, for
\* ii = 0 .. batch_size-1 in order, of get_target(chunk, ii, window_size), and x
\* repeats chunk[ii] once for each context token returned for ii.
C4_BatchIsCentreContextPairs ==
  n_yielded > 0 =>
    /\ Len(last.x) = Len(last.y)
    /\ Len(last.y) = PairsBefore(batch_size)
    /\ \A ii \in 0..(batch_size - 1) :
         \A k \in 1..Len(ContextOf(ii)) :
           /\ last.y[PairsBefore(ii) + k] = ContextOf(ii)[k]
           /\ last.x[PairsBefore(ii) + k] = last.batch[ii + 1]

\* C4 witness: a batch in which two centres got different numbers of contexts.
C4_Witness ==
  /\ n_yielded > 0
  /\ \E ii, jj \in 0..(batch_size - 1) :
       /\ Len(ContextOf(ii)) >= 2
       /\ Len(ContextOf(jj)) = 1

(* ----------------------- properties: preprocess ------------------------ *)
Returned == pre.pc = "returned"

Occurrences(ws, w) == Cardinality({k \in 1..Len(ws) : ws[k] = w})

FrequentToken(w) == Occurrences(pre.words, w) > 5

\* C5: preprocess returns exactly the subsequence, in original order, of the
\* tokens of the lower-cased, punctuation-substituted, split text that occur
\* more than 5 times in that token list.
C5_DropsFiveOrFewer ==
  Returned => pre.trimmed_words = SelectSeq(pre.words, FrequentToken)

\* C5 witness: one token occurs 6 times and is kept, another 5 times and is dropped.
C5_Witness ==
  /\ Returned
  /\ \E k \in 1..Len(pre.words) : Occurrences(pre.words, pre.words[k]) = 5
  /\ Len(pre.trimmed_words) = 6

\* The punctuation characters and the sentinel each is to become.
SentinelOf ==
  {<<".", PERIOD>>, <<",", COMMA>>, <<"\"", QUOTATION_MARK>>, <<";", SEMICOLON>>,
   <<"!", EXCLAMATION_MARK>>, <<"?", QUESTION_MARK>>, <<"(", LEFT_PAREN>>,
   <<")", RIGHT_PAREN>>, <<":", COLON>>}
Punctuation == {".", ",", "\"", ";", "!", "?", "(", ")", ":"}

\* The number of hyphens that end just before position k of the text.
RECURSIVE HyphensBefore(_)
HyphensBefore(k) ==
  IF k > 1 /\ text[k - 1] = "-" THEN 1 + HyphensBefore(k - 1) ELSE 0

\* The positions where an occurrence of -- starts, counted left to right
\* without overlap.
HyphenPairs ==
  {k \in 1..(Len(text) - 1) :
     text[k] = "-" /\ text[k + 1] = "-" /\ HyphensBefore(k) % 2 = 0}

\* C6: every occurrence of . , " ; ! ? ( ) : and of -- in the input is one
\* whitespace-separated sentinel token of the word list (so no replacement
\* damages a sentinel put in before it), and no token, of the word list or of
\* the result, contains one of the characters . , " ; ! ? ( ) :
C6_PunctuationBecomesSentinels ==
  Returned =>
    /\ \A cs \in SentinelOf :
         Occurrences(pre.words, cs[2]) = Occurrences(text, cs[1])
    /\ Occurrences(pre.words, HYPHENS) = Cardinality(HyphenPairs)
    /\ \A k \in 1..Len(pre.words) : Elems(pre.words[k]) \cap Punctuation = {}
    /\ \A k \in 1..Len(pre.trimmed_words) :
         Elems(pre.trimmed_words[k]) \cap Punctuation = {}

\* C6 witness: a text with two punctuation marks next to a letter was tokenized.
C6_Witness ==
  /\ Returned
  /\ Len(text) = 3
  /\ text[2] = "a"
  /\ text[1] = ":"
  /\ text[3] = "."
  /\ pre.words = <<COLON, <<"a">>, PERIOD>>

(* ------------------ properties: create_lookup_tables ------------------- *)
TablesMade == lookup.pc = "returned"

\* C7: ids are assigned in descending frequency order: count(a) > count(b)
\* implies vocab_to_int[a] < vocab_to_int[b], and the word with id 0 is a most
\* frequent one.
C7_IdsInDescendingFrequency ==
  TablesMade =>
    /\ \A a, b \in Elems(words) :
         Occurrences(words, a) > Occurrences(words, b) =>
           lookup.vocab_to_int[a] < lookup.vocab_to_int[b]
    /\ words # <<>> =>
         \A b \in Elems(words) :
           Occurrences(words, lookup.int_to_vocab[0]) >= Occurrences(words, b)

\* C7 witness: three words of three different counts, the rarest met first.
C7_Witness ==
  /\ TablesMade
  /\ words = <<"of", "the", "and", "the", "and", "the">>
  /\ lookup.vocab_to_int["the"] = 0
  /\ lookup.vocab_to_int["of"] = 2

\* C8: the tables are mutually inverse bijections between the distinct words
\* and the ids 0 .. n-1, so decoding the encoded list gives back the words.
C8_TablesAreInverseBijections ==
  TablesMade =>
    /\ DOMAIN lookup.vocab_to_int = Elems(words)
    /\ DOMAIN lookup.int_to_vocab = 0..(Cardinality(Elems(words)) - 1)
    /\ \A w \in Elems(words) : lookup.int_to_vocab[lookup.vocab_to_int[w]] = w
    /\ \A i \in 0..(Cardinality(Elems(words)) - 1) :
         lookup.vocab_to_int[lookup.int_to_vocab[i]] = i
    /\ Len(int_words) = Len(words)
    /\ \A k \in 1..Len(words) : lookup.int_to_vocab[int_words[k]] = words[k]

\* C8 witness: a list with repeated words was encoded with three ids.
C8_Witness ==
  /\ TablesMade
  /\ Cardinality(Elems(words)) = 3
  /\ Len(words) = 5
  /\ {int_words[k] : k \in 1..Len(int_words)} = {0, 1, 2}

(* ------------------------ properties: subsampling ---------------------- *)
Sampled == sub.pc = "done"

\* u < sqrt(t / f(w)) for the k-th occurrence, with t = 1e-5 and
\* f(w) = count(w) / len(int_words): u*u * 100000 * count(w) < len(int_words).
KeptByRule(k) ==
  sub.u[k].n * sub.u[k].n * 100000 * Occurrences(int_words, int_words[k])
    < sub.u[k].d * sub.u[k].d * Len(int_words)

KeptPositions == {k \in 1..Len(int_words) : KeptByRule(k)}

\* C9: an occurrence of w is kept exactly when its draw u satisfies
\* u < sqrt(t / f(w)), t = 1e-5, f(w) = count(w) / len(int_words) (so it is
\* dropped with probability 1 - sqrt(t / f(w))); train_words is the list of the
\* kept occurrences, in order.
C9_KeptIffDrawBelowSqrt ==
  Sampled =>
    /\ Len(train_words) = Cardinality(KeptPositions)
    /\ \A k \in KeptPositions :
         train_words[Cardinality({j \in KeptPositions : j <= k})] = int_words[k]

\* C9 witness: of two occurrences with the same draw, the rarer word's is kept
\* and the more frequent word's is dropped.
C9_Witness ==
  /\ Sampled
  /\ \E j, k \in 1..Len(int_words) :
       /\ sub.u[j] = sub.u[k]
       /\ Occurrences(int_words, int_words[j]) < Occurrences(int_words, int_words[k])
       /\ j \in KeptPositions
       /\ k \notin KeptPositions
  /\ train_words # <<>>

(* ------------------- properties: saving and loading -------------------- *)
\* C10: for a model Network(784, 10, h), writing the checkpoint dictionary and
\* then calling load_checkpoint on the file raises no size-mismatch error and
\* gives a model with the same hidden layers and an equal state_dict.
C10_CheckpointRoundTrip ==
  [][(nb.last = "save" /\ nb'.last = "load") =>
       /\ nb'.err = "none"
       /\ model'.hidden_layers = model.hidden_layers
       /\ model'.output = model.output
       /\ StateDict(model') = StateDict(model)]_vars

\* C10 witness: a trained network with two hidden layers of different sizes
\* came back from the file.
C10_Witness ==
  /\ nb = [last |-> "load", err |-> "none"]
  /\ Len(model.hidden_layers) = 2
  /\ model.hidden_layers[1].out_features # model.hidden_layers[2].out_features
  /\ \A key \in DOMAIN model.params : model.params[key].steps = 1
  /\ file.state_dict = StateDict(model)

(* ---------------- properties: the notebook's recorded run --------------- *)
\* The cells have been run first to last, each once, up to some cell between
\* the two named ones.
InOrderBetween(first_cell, last_cell) ==
  nb.order \in Position(first_cell)..Position(last_cell)

\* A state dict all of whose tensors fc_model.train has updated.
IsTrained(state_dict) == \A key \in DOMAIN state_dict : state_dict[key].data.steps >= 1

\* C11: when the cells are run in their recorded order, the checkpoint the
\* checkpoint-dictionary cell writes holds the network fc_model.train trained
\* (hidden_layers [512, 256, 128] and its trained state_dict), and the
\* load_checkpoint cell returns that trained model.
C11_CheckpointHoldsTrainedModel ==
  /\ InOrderBetween("save_checkpoint", "load_checkpoint") =>
       /\ file.kind = "checkpoint"
       /\ file.hidden_layers = <<512, 256, 128>>
       /\ IsTrained(file.state_dict)
  /\ InOrderBetween("load_checkpoint", "load_checkpoint") =>
       /\ nb.err = "none"
       /\ HiddenLayersOf(model) = <<512, 256, 128>>
       /\ StateDict(model) = file.state_dict
       /\ IsTrained(StateDict(model))

\* C12: the 'Try this' cell, which builds Network(784, 10, [400, 200, 100]) and
\* calls load_state_dict, raises the size-mismatch error and prints nothing.
C12_TryThisRaises ==
  nb.last = "try_this" => (nb.err = "RuntimeError" /\ nb.out = "nothing")

(* --------------------- properties: cosine_similarity ------------------- *)
Sign(n) == IF n > 0 THEN 1 ELSE IF n < 0 THEN -1 ELSE 0

\* The returned entry v, the real number v.num / sqrt(v.den.sqrt_of), is
\* (a . b) / (|a| |b|): both sides have the same sign and the same square.
IsCosineOf(v, a, b) ==
  /\ Sign(v.num) = Sign(Dot(a, b))
  /\ v.num * v.num * Dot(a, a) * Dot(b, b) = Dot(a, b) * Dot(a, b) * v.den.sqrt_of

\* -1 <= v <= 1, and v = 1.
InUnitRange(v) == v.num * v.num <= v.den.sqrt_of
IsOne(v) == v.num > 0 /\ v.num * v.num = v.den.sqrt_of

\* C13: cosine_similarity returns, for every validation word vector a and
\* every embedding row b (both non-zero), (a . b) / (|a| |b|): a value in
\* [-1, 1], and 1 for a validation word against its own embedding row.
C13_ReturnsCosineSimilarity ==
  sim.pc = "returned" =>
    \A i \in DOMAIN sim.valid_examples, j \in DOMAIN sim.weight :
      LET a == sim.weight[sim.valid_examples[i]]
          b == sim.weight[j]
          v == sim.similarities[i][j]
      IN (Dot(a, a) > 0 /\ Dot(b, b) > 0) =>
           /\ IsCosineOf(v, a, b)
           /\ InUnitRange(v)
           /\ (j = sim.valid_examples[i] => IsOne(v))

(* ------------------- properties: the skip-gram notebook ---------------- *)
\* The cells have been run first to last, each once, the training cell last.
RanInOrder == skip.order = Len(Cells)

\* C14: with the cells run in order, the training cell's
\* SkipGram(len(vocab_to_int), embedding_dim) constructs: model is bound to a
\* module with an n_vocab x n_embed embedding, a Linear(n_embed, n_vocab)
\* output and a log-softmax, and the cell goes on into its training loop.
C14_SkipGramConstructs ==
  RanInOrder =>
    /\ skip.err = "none"
    /\ skip.at = 0
    /\ skip.model = SkipGram(skip.n_vocab, EmbeddingDim)
    /\ skip.model.embed = [num_embeddings |-> skip.n_vocab, embedding_dim |-> EmbeddingDim]
    /\ skip.model.output = Linear(EmbeddingDim, skip.n_vocab)

====
